---- MODULE Spec2Model ----
(***************************************************************************)
(* Ivy: the /data ingest pipeline (src/app.py data(), src/AI/agent.py      *)
(* report()), the Data table (src/App/model.py) and the dashboard route    *)
(* (src/app.py index()), as a state machine of concurrent requests.        *)
(*                                                                         *)
(* Python values are records [t, n, s]: t is the Python type, n the        *)
(* number (a float is kept in thousandths), s the characters of a str.     *)
(* A text returned by the language model is a sequence of JSON tokens.     *)
(***************************************************************************)
EXTENDS Integers, Sequences, FiniteSets

\* number of concurrent POST /data requests
NumReq == 2
\* Data.query...limit(20)
RecentLimit == 20

Req == 1..NumReq

----------------------------------------------------------------------------
\* Python values

PInt(i) == [t |-> "int", n |-> i, s |-> <<>>]
PFloat(m) == [t |-> "float", n |-> m, s |-> <<>>]
PStr(cs) == [t |-> "str", n |-> 0, s |-> cs]
PNone == [t |-> "none", n |-> 0, s |-> <<>>]

\* the result of a call: a value, or the exception it raised
Ok(val) == [ok |-> TRUE, exc |-> "", v |-> val]
Raise(e) == [ok |-> FALSE, exc |-> e, v |-> PNone]

DigitChars == <<"0", "1", "2", "3", "4", "5", "6", "7", "8", "9">>
IsDigit(c) == \E i \in 1..10 : DigitChars[i] = c
DigitVal(c) == (CHOOSE i \in 1..10 : DigitChars[i] = c) - 1

RECURSIVE LStrip(_)
LStrip(cs) == IF cs # <<>> /\ Head(cs) = " " THEN LStrip(Tail(cs)) ELSE cs

RECURSIVE RStrip(_)
RStrip(cs) ==
    IF cs # <<>> /\ cs[Len(cs)] = " " THEN RStrip(SubSeq(cs, 1, Len(cs) - 1)) ELSE cs

\* str.strip()
Strip(cs) == RStrip(LStrip(cs))

RECURSIVE DigitsVal(_)
DigitsVal(cs) ==
    IF cs = <<>> THEN 0
    ELSE 10 * DigitsVal(SubSeq(cs, 1, Len(cs) - 1)) + DigitVal(cs[Len(cs)])

AllDigits(cs) == cs # <<>> /\ \A i \in 1..Len(cs) : IsDigit(cs[i])

Unsigned(cs) == IF cs # <<>> /\ Head(cs) = "-" THEN Tail(cs) ELSE cs
Sign(cs) == IF cs # <<>> /\ Head(cs) = "-" THEN -1 ELSE 1

\* the text of an integer literal: optional blanks, optional minus, digits
IsIntText(cs) == AllDigits(Unsigned(Strip(cs)))
IntTextVal(cs) == Sign(Strip(cs)) * DigitsVal(Unsigned(Strip(cs)))

DotAt(cs) == {i \in 1..Len(cs) : cs[i] = "."}

\* the text of a decimal literal with at most three decimals
IsFloatText(cs) ==
    LET u == Unsigned(Strip(cs))
    IN  \/ AllDigits(u)
        \/ /\ Cardinality(DotAt(u)) = 1
           /\ LET d == CHOOSE i \in DotAt(u) : TRUE
              IN  /\ AllDigits(SubSeq(u, 1, d - 1))
                  /\ AllDigits(SubSeq(u, d + 1, Len(u)))
                  /\ Len(u) - d <= 3

Pow10(k) == IF k = 0 THEN 1 ELSE IF k = 1 THEN 10 ELSE IF k = 2 THEN 100 ELSE 1000

\* its value in thousandths
FloatTextVal(cs) ==
    LET u == Unsigned(Strip(cs))
    IN  IF AllDigits(u) THEN Sign(Strip(cs)) * 1000 * DigitsVal(u)
        ELSE LET d == CHOOSE i \in DotAt(u) : TRUE
                 frac == SubSeq(u, d + 1, Len(u))
             IN  Sign(Strip(cs)) *
                   (1000 * DigitsVal(SubSeq(u, 1, d - 1))
                      + DigitsVal(frac) * Pow10(3 - Len(frac)))

\* float(x)
PyFloat(x) ==
    CASE x.t = "int" -> Ok(PFloat(1000 * x.n))
      [] x.t = "float" -> Ok(x)
      [] x.t = "str" ->
            IF IsFloatText(x.s) THEN Ok(PFloat(FloatTextVal(x.s))) ELSE Raise("ValueError")
      [] OTHER -> Raise("TypeError")

\* truncation toward zero of a number of thousandths
Trunc(m) == IF m >= 0 THEN m \div 1000 ELSE -((-m) \div 1000)

\* int(x)
PyInt(x) ==
    CASE x.t = "int" -> Ok(x)
      [] x.t = "float" -> Ok(PInt(Trunc(x.n)))
      [] x.t = "str" ->
            IF IsIntText(x.s) THEN Ok(PInt(IntTextVal(x.s))) ELSE Raise("ValueError")
      [] OTHER -> Raise("TypeError")

\* round(x, 2) of a float in thousandths: to the nearest hundredth, a tie to
\* the even hundredth
Round2(m) ==
    LET a == IF m >= 0 THEN m ELSE -m
        q == a \div 10
        r == a % 10
        up == r > 5 \/ (r = 5 /\ q % 2 = 1)
        h == IF up THEN q + 1 ELSE q
    IN  IF m >= 0 THEN 10 * h ELSE -(10 * h)

----------------------------------------------------------------------------
\* JSON texts and json.loads

Punct(k) == [k |-> k, v |-> PNone]
Lit(val) == [k |-> "lit", v |-> val]
\* characters that start no JSON value
Junk(cs) == [k |-> "junk", v |-> PStr(cs)]

K_text == <<"t", "e", "x", "t">>
K_recommendation == <<"r", "e", "c">>
K_confidence == <<"c", "o", "n", "f">>

\* { "text": a, "recommendation": b, "confidence": c }
Obj3(a, b, c) ==
    << Punct("{"), Lit(PStr(K_text)), Punct(":"), Lit(a), Punct(","),
       Lit(PStr(K_recommendation)), Punct(":"), Lit(b), Punct(","),
       Lit(PStr(K_confidence)), Punct(":"), Lit(c), Punct("}") >>

\* the members of an object text: toks[2 .. Len-1] is key : value { , key : value }
MembersOk(toks) ==
    LET n == Len(toks)
    IN  \/ n = 2
        \/ /\ (n - 1) % 4 = 0
           /\ \A i \in 2..(n - 1) :
                CASE (i - 2) % 4 = 0 -> toks[i].k = "lit" /\ toks[i].v.t = "str"
                  [] (i - 2) % 4 = 1 -> toks[i].k = ":"
                  [] (i - 2) % 4 = 2 -> toks[i].k = "lit"
                  [] OTHER -> toks[i].k = ","

Members(toks) ==
    [j \in 1..((Len(toks) - 1) \div 4) |-> <<toks[4 * j - 2].v.s, toks[4 * j].v>>]

\* json.loads(text): a scalar, a dict (its items in text order), or JSONDecodeError
json_loads(toks) ==
    IF Len(toks) = 1 /\ toks[1].k = "lit"
    THEN [ok |-> TRUE, exc |-> "", isDict |-> FALSE, v |-> toks[1].v, items |-> <<>>]
    ELSE IF /\ Len(toks) >= 2
            /\ toks[1].k = "{"
            /\ toks[Len(toks)].k = "}"
            /\ MembersOk(toks)
    THEN [ok |-> TRUE, exc |-> "", isDict |-> TRUE, v |-> PNone, items |-> Members(toks)]
    ELSE [ok |-> FALSE, exc |-> "JSONDecodeError", isDict |-> FALSE, v |-> PNone,
          items |-> <<>>]

\* parsed_resp[key]: the last member of that name; KeyError without one, TypeError
\* on a value that is no dict
GetItem(parsed, key) ==
    IF ~parsed.isDict THEN Raise("TypeError")
    ELSE LET at == {i \in 1..Len(parsed.items) : parsed.items[i][1] = key}
         IN  IF at = {} THEN Raise("KeyError")
             ELSE Ok(parsed.items[CHOOSE i \in at : \A j \in at : j <= i][2])

\* value.strip()
StripValue(x) == IF x.t = "str" THEN Ok(PStr(Strip(x.s))) ELSE Raise("AttributeError")

----------------------------------------------------------------------------
\* report() (src/AI/agent.py)

\* what llm.invoke did: returned a text, or raised
Returned(toks) == [called |-> TRUE, raised |-> FALSE, text |-> toks]
Raised == [called |-> TRUE, raised |-> TRUE, text |-> <<>>]
NotCalled == [called |-> FALSE, raised |-> FALSE, text |-> <<>>]

\* f"Error."
ErrorText == <<Junk(<<"E", "r", "r", "o", "r", ".">>)>>

\* report() without its outer try/except: an exception of llm.invoke leaves it
ReportReturnUncaught(out) ==
    IF out.raised THEN [ok |-> FALSE, exc |-> "Exception", type |-> "", text |-> <<>>]
    ELSE [ok |-> TRUE, exc |-> "", type |-> "str", text |-> out.text]

\* report() from llm.invoke on: an exception of llm.invoke is caught and "Error."
\* returned; the text is returned as it is, a str, whether json.loads accepts it
\* or raises JSONDecodeError
ReportReturn(out) ==
    IF out.raised THEN [ok |-> TRUE, exc |-> "", type |-> "str", text |-> ErrorText]
    ELSE IF json_loads(out.text).ok
    THEN [ok |-> TRUE, exc |-> "", type |-> "str", text |-> out.text]
    ELSE [ok |-> TRUE, exc |-> "", type |-> "str", text |-> out.text]

NoReturn == [ok |-> TRUE, exc |-> "", type |-> "", text |-> <<>>]

\* temp = round(float(temp), 2) ...; prompt.format(Temp, Humid, Proxy)
FormatPrompt(b) ==
    LET t == PyFloat(b.Temp)
        h == PyFloat(b.Humid)
        p == PyFloat(b.Proxy)
    IN  IF ~t.ok THEN Raise(t.exc)
        ELSE IF ~h.ok THEN Raise(h.exc)
        ELSE IF ~p.ok THEN Raise(p.exc)
        ELSE [ok |-> TRUE, exc |-> "",
              v |-> <<Round2(t.v.n), Round2(h.v.n), Round2(p.v.n)>>]

----------------------------------------------------------------------------
\* data() (src/app.py) and the Data table (src/App/model.py)

Keys == {"Temp", "Humid", "Proxy"}

\* temp = data['Temp']; humid = data['Humid']; proxy = data['Proxy']
GetFields(b) == IF Keys \subseteq DOMAIN b THEN Ok(PNone) ELSE Raise("KeyError")

\* parsed_resp = json.loads(response); text, recommendation, confidence
Extract(ret) ==
    LET parsed == json_loads(ret.text)
        a == GetItem(parsed, K_text)
        sa == StripValue(a.v)
        b == GetItem(parsed, K_recommendation)
        sb == StripValue(b.v)
        c == GetItem(parsed, K_confidence)
        fail(e) == [ok |-> FALSE, exc |-> e, text |-> PNone, recommendation |-> PNone,
                    confidence |-> PNone]
    IN  IF ~parsed.ok THEN fail(parsed.exc)
        ELSE IF ~a.ok THEN fail(a.exc)
        ELSE IF ~sa.ok THEN fail(sa.exc)
        ELSE IF ~b.ok THEN fail(b.exc)
        ELSE IF ~sb.ok THEN fail(sb.exc)
        ELSE IF ~c.ok THEN fail(c.exc)
        ELSE [ok |-> TRUE, exc |-> "", text |-> sa.v, recommendation |-> sb.v,
              confidence |-> c.v]

Row(i, t, h, p, resp, sugg, confid) ==
    [id |-> i, Temp |-> t, Humid |-> h, Proxy |-> p, Resp |-> resp, Sugg |-> sugg,
     Confid |-> confid]

\* None: no Data object, no row
NoRow == Row(0, PNone, PNone, PNone, PNone, PNone, PNone)

\* data_ = Data(Temp=int(temp), Humid=int(humid), Proxy=int(proxy), Resp=text,
\*              Sugg=recommendation, Confid=confidence), its id not yet assigned
BuildData(b, x) ==
    LET t == PyInt(b.Temp)
        h == PyInt(b.Humid)
        p == PyInt(b.Proxy)
        fail(e) == [ok |-> FALSE, exc |-> e, row |-> NoRow]
    IN  IF ~t.ok THEN fail(t.exc)
        ELSE IF ~h.ok THEN fail(h.exc)
        ELSE IF ~p.ok THEN fail(p.exc)
        ELSE [ok |-> TRUE, exc |-> "",
              row |-> Row(0, t.v, h.v, p.v, x.text, x.recommendation, x.confidence)]

\* what an INTEGER column of the table keeps of a bound value: an integer when the
\* value converts to one without loss, the value itself otherwise
IntegerAffinity(x) ==
    CASE x.t = "float" -> IF x.n % 1000 = 0 THEN PInt(x.n \div 1000) ELSE x
      [] x.t = "str" ->
            IF IsIntText(x.s) THEN PInt(IntTextVal(x.s))
            ELSE IF IsFloatText(x.s) /\ FloatTextVal(x.s) % 1000 = 0
                 THEN PInt(FloatTextVal(x.s) \div 1000)
            ELSE IF IsFloatText(x.s) THEN PFloat(FloatTextVal(x.s))
            ELSE x
      [] OTHER -> x

\* columns that accept NULL
NotNullDropped(row) == TRUE

\* nullable = False on every column of Data
NotNull(row) ==
    \A f \in {"Temp", "Humid", "Proxy", "Resp", "Sugg", "Confid"} : row[f].t # "none"

\* id = db.Column(db.Integer, primary_key = True): one more than the greatest id
\* of the table
NextId(s) ==
    IF s = <<>> THEN 1
    ELSE (CHOOSE m \in {s[i].id : i \in DOMAIN s} : \A i \in DOMAIN s : s[i].id <= m) + 1

\* the row the INSERT of data_ writes into table s
Stored(s, row) ==
    [row EXCEPT !.id = NextId(s), !.Confid = IntegerAffinity(row.Confid)]

\* a commit that replaces the table by the new row
InsertOverwrites(s, row) == <<row>>

\* the table after the commit of row
Insert(s, row) == Append(s, row)

\* the indices of s by descending id
RECURSIVE DescById(_, _)
DescById(s, I) ==
    IF I = {} THEN <<>>
    ELSE LET m == CHOOSE i \in I : \A j \in I : s[j].id < s[i].id \/ (s[j].id = s[i].id /\ j <= i)
         IN  <<s[m]>> \o DescById(s, I \ {m})

Min(a, b) == IF a <= b THEN a ELSE b

\* Data.query.order_by(Data.id.desc()).first()
Latest(s) == IF s = <<>> THEN NoRow ELSE Head(DescById(s, DOMAIN s))

\* Data.query.order_by(Data.id.desc()).limit(20).all()
Recent(s) == SubSeq(DescById(s, DOMAIN s), 1, Min(RecentLimit, Len(s)))

\* the id of the newest row of the table instead of the id of data_
ResponseIdOfNewest(s, d) == NextId(s) - 1

\* data_.id after the commit: the id of the row data_ was stored as
ResponseId(s, d) == d.id

\* the HTTP response of data(): jsonify({...}), 200
Success(i, x) ==
    [status |-> 200, id |-> i, Display |-> x.text, Sugg |-> x.recommendation,
     Confid |-> x.confidence]

\* the response to an exception no handler catches
InternalServerError ==
    [status |-> 500, id |-> 0, Display |-> PNone, Sugg |-> PNone, Confid |-> PNone]

NoResponse ==
    [status |-> 0, id |-> 0, Display |-> PNone, Sugg |-> PNone, Confid |-> PNone]

----------------------------------------------------------------------------
\* The requests the model draws from

\* request.get_json(): the bodies of POST /data
Bodies ==
    { [Temp |-> PFloat(25678), Humid |-> PInt(40), Proxy |-> PStr(<<"3">>)],
      [Temp |-> PFloat(-1500), Humid |-> PInt(55), Proxy |-> PInt(7)],
      [Temp |-> PInt(25), Humid |-> PStr(<<"a", "b">>), Proxy |-> PInt(3)],
      [Temp |-> PInt(25), Humid |-> PInt(40)] }

NoBody == [none |-> TRUE]

S_mild == PStr(<<" ", "M", "i", "l", "d", " ">>)
S_damp == PStr(<<"D", "a", "m", "p">>)
S_sip == PStr(<<"S", "i", "p">>)
S_rest == PStr(<<"R", "e", "s", "t", " ">>)

\* the texts llm.invoke returns
Texts ==
    { Obj3(S_mild, S_sip, PInt(80)),
      Obj3(S_damp, S_rest, PStr(<<"9", "0">>)),
      Obj3(S_mild, S_rest, PNone),
      << Punct("{"), Lit(PStr(K_text)), Punct(":"), Lit(S_mild), Punct(","),
         Lit(PStr(K_confidence)), Punct(":"), Lit(PInt(80)), Punct("}") >>,
      ErrorText }

----------------------------------------------------------------------------
\* State

VARIABLES
    pc,        \* pc[r]: how far request r of POST /data has come
    body,      \* body[r]: data, the JSON body of request r, while r runs
    prompt_,   \* prompt_[r]: the formatted prompt (its three rounded inputs)
    llmOut,    \* llmOut[r]: what llm.invoke did for r
    response,  \* response[r]: what report() returned to data()
    data_,     \* data_[r]: the Data object of r, once built and flushed
    exc,       \* exc[r]: the exception that ended r (the server's log), "" when none
    http,      \* http[r]: the HTTP response of r
    store,     \* the committed rows of table data, in commit order
    writer,    \* the request whose transaction holds the write lock, 0 when none
    gpc,       \* how far the GET / request has come
    gdata,     \* data of index()
    gItems     \* Items of index()

vars ==
    <<pc, body, prompt_, llmOut, response, data_, exc, http, store, writer,
      gpc, gdata, gItems>>

reqVars == <<pc, body, prompt_, llmOut, response, data_, exc, http>>
getVars == <<gpc, gdata, gItems>>

Init ==
    /\ pc = [r \in Req |-> "Idle"]
    /\ body = [r \in Req |-> NoBody]
    /\ prompt_ = [r \in Req |-> <<>>]
    /\ llmOut = [r \in Req |-> NotCalled]
    /\ response = [r \in Req |-> NoReturn]
    /\ data_ = [r \in Req |-> NoRow]
    /\ exc = [r \in Req |-> ""]
    /\ http = [r \in Req |-> NoResponse]
    /\ store = <<>>
    /\ writer = 0
    /\ gpc = "Idle"
    /\ gdata = NoRow
    /\ gItems = <<>>

\* the locals of data() and report() in request r
Locals(r, b, p, o, ret, d) ==
    /\ body' = [body EXCEPT ![r] = b]
    /\ prompt_' = [prompt_ EXCEPT ![r] = p]
    /\ llmOut' = [llmOut EXCEPT ![r] = o]
    /\ response' = [response EXCEPT ![r] = ret]
    /\ data_' = [data_ EXCEPT ![r] = d]

\* data() has ended: its locals are gone
NoLocals(r) == Locals(r, NoBody, <<>>, NotCalled, NoReturn, NoRow)

\* an exception e leaves data() uncaught: the request ends with a 500
Fail(r, e) ==
    /\ pc' = [pc EXCEPT ![r] = "Failed"]
    /\ exc' = [exc EXCEPT ![r] = e]
    /\ http' = [http EXCEPT ![r] = InternalServerError]
    /\ NoLocals(r)

\* data = request.get_json(); the requests are numbered in their order of arrival
Receive(r) ==
    /\ pc[r] = "Idle"
    /\ r > 1 => pc[r - 1] # "Idle"
    /\ \E b \in Bodies : Locals(r, b, prompt_[r], llmOut[r], response[r], data_[r])
    /\ pc' = [pc EXCEPT ![r] = "Received"]
    /\ UNCHANGED <<exc, http, store, writer>>
    /\ UNCHANGED getVars

\* data['Temp'] ... data['Proxy'], then report() up to prompt.format
Format(r) ==
    /\ pc[r] = "Received"
    /\ LET g == GetFields(body[r])
           f == FormatPrompt(body[r])
       IN  IF ~g.ok THEN Fail(r, g.exc)
           ELSE IF ~f.ok THEN Fail(r, f.exc)
           ELSE /\ Locals(r, body[r], f.v, llmOut[r], response[r], data_[r])
                /\ pc' = [pc EXCEPT ![r] = "Formatted"]
                /\ UNCHANGED <<exc, http>>
    /\ UNCHANGED <<store, writer>>
    /\ UNCHANGED getVars

\* resp = llm.invoke(prompt_): a text, or an exception, which report() catches
Interpret(r) ==
    /\ pc[r] = "Formatted"
    /\ \E o \in {Raised} \cup {Returned(t) : t \in Texts} :
          Locals(r, body[r], prompt_[r], o, response[r], data_[r])
    /\ pc' = [pc EXCEPT ![r] = "Interpreted"]
    /\ UNCHANGED <<exc, http, store, writer>>
    /\ UNCHANGED getVars

\* the rest of report(): json.loads(resp) and its return to data()
Validate(r) ==
    /\ pc[r] = "Interpreted"
    /\ LET ret == ReportReturn(llmOut[r])
       IN  IF ~ret.ok THEN Fail(r, ret.exc)
           ELSE /\ Locals(r, body[r], prompt_[r], llmOut[r], ret, data_[r])
                /\ pc' = [pc EXCEPT ![r] = "Validated"]
                /\ UNCHANGED <<exc, http>>
    /\ UNCHANGED <<store, writer>>
    /\ UNCHANGED getVars

\* writers that do not wait for the write lock
CanWriteUnlocked(r) == TRUE

\* the write lock of the database is free for r's INSERT
CanWrite(r) == writer = 0

\* json.loads(response) ... Data(...), db.session.add(data_) and the INSERT that
\* db.session.commit() flushes inside r's transaction; the INSERT waits for the
\* write lock, and raises when its wait times out
Flush(r) ==
    /\ pc[r] = "Validated"
    /\ LET x == Extract(response[r])
           d == BuildData(body[r], x)
       IN  IF ~x.ok THEN Fail(r, x.exc) /\ UNCHANGED writer
           ELSE IF ~d.ok THEN Fail(r, d.exc) /\ UNCHANGED writer
           ELSE \/ /\ CanWrite(r)
                   /\ IF NotNull(d.row)
                      THEN /\ Locals(r, body[r], prompt_[r], llmOut[r], response[r],
                                     Stored(store, d.row))
                           /\ writer' = r
                           /\ pc' = [pc EXCEPT ![r] = "Flushed"]
                           /\ UNCHANGED <<exc, http>>
                      ELSE Fail(r, "IntegrityError") /\ UNCHANGED writer
                \/ /\ ~CanWrite(r)
                   /\ Fail(r, "OperationalError")
                   /\ UNCHANGED writer
    /\ UNCHANGED store
    /\ UNCHANGED getVars

\* the COMMIT of db.session.commit()
Commit(r) ==
    /\ pc[r] = "Flushed"
    /\ store' = Insert(store, data_[r])
    /\ writer' = 0
    /\ pc' = [pc EXCEPT ![r] = "Persisted"]
    /\ UNCHANGED <<body, prompt_, llmOut, response, data_, exc, http>>
    /\ UNCHANGED getVars

\* return jsonify({"status": "ok", "id": data_.id, ...}), 200
Respond(r) ==
    /\ pc[r] = "Persisted"
    /\ http' = [http EXCEPT ![r] =
                   Success(ResponseId(store, data_[r]), Extract(response[r]))]
    /\ pc' = [pc EXCEPT ![r] = "Done"]
    /\ NoLocals(r)
    /\ UNCHANGED <<exc, store, writer>>
    /\ UNCHANGED getVars

\* index(): data = Data.query.order_by(Data.id.desc()).first()
IndexLatest ==
    /\ gpc = "Idle"
    /\ gdata' = Latest(store)
    /\ gpc' = "Latest"
    /\ UNCHANGED <<gItems, store, writer>>
    /\ UNCHANGED reqVars

\* index(): Items = Data.query.order_by(Data.id.desc()).limit(20).all()
IndexRecent ==
    /\ gpc = "Latest"
    /\ gItems' = Recent(store)
    /\ gpc' = "Recent"
    /\ UNCHANGED <<gdata, store, writer>>
    /\ UNCHANGED reqVars

\* index(): return render_template('index.html', data = data, Data = Items); the
\* next GET / starts with fresh locals
Render ==
    /\ gpc = "Recent"
    /\ gpc' = "Idle"
    /\ gdata' = NoRow
    /\ gItems' = <<>>
    /\ UNCHANGED <<store, writer>>
    /\ UNCHANGED reqVars

Next ==
    \/ \E r \in Req : Receive(r)
    \/ \E r \in Req : Format(r)
    \/ \E r \in Req : Interpret(r)
    \/ \E r \in Req : Validate(r)
    \/ \E r \in Req : Flush(r)
    \/ \E r \in Req : Commit(r)
    \/ \E r \in Req : Respond(r)
    \/ IndexLatest
    \/ IndexRecent
    \/ Render

Spec == Init /\ [][Next]_vars

----------------------------------------------------------------------------
\* Properties

Terminal(r) == pc[r] \in {"Done", "Failed"}
Committed(r) == pc[r] \in {"Persisted", "Done"}
Rows == {store[i] : i \in DOMAIN store}

\* the stage of the five-state pipeline a request is in: the INSERT of a request
\* is not persisted before its commit, and a request that has answered 200 stays
\* persisted
Stage(p) ==
    CASE p = "Flushed" -> "Validated"
      [] p = "Done" -> "Persisted"
      [] OTHER -> p

\* row holds the sensor values of r's body (as integers) and the text,
\* recommendation and confidence of the text llm.invoke returned to r
FromRequest(row, r) ==
    LET parsed == json_loads(llmOut[r].text)
    IN  /\ Keys \subseteq DOMAIN body[r]
        /\ llmOut[r].called /\ ~llmOut[r].raised
        /\ parsed.ok /\ parsed.isDict
        /\ row.Temp = PyInt(body[r].Temp).v
        /\ row.Humid = PyInt(body[r].Humid).v
        /\ row.Proxy = PyInt(body[r].Proxy).v
        /\ row.Resp = StripValue(GetItem(parsed, K_text).v).v
        /\ row.Sugg = StripValue(GetItem(parsed, K_recommendation).v).v
        /\ row.Confid = IntegerAffinity(GetItem(parsed, K_confidence).v)

\* C1: a request whose body lacks Temp, Humid or Proxy ends with HTTP 400, without
\* a call of the Interpretation Client and with the store as it was.
C1_MissingFieldIs400 ==
    [][\A r \in Req :
         (pc[r] = "Received" /\ ~(Keys \subseteq DOMAIN body[r]) /\ pc'[r] # pc[r])
            => /\ Terminal(r)'
               /\ http'[r].status = 400
               /\ ~llmOut[r].called
               /\ store' = store]_vars

\* C2: a request whose Interpretation Client call raised ends with a 5xx response
\* that tells an upstream error from the response an uncaught exception of any
\* other cause gets, never with a 200, and inserts no row.
C2_UpstreamFailureDistinct ==
    [][\A r \in Req :
         (llmOut[r].raised /\ ~Terminal(r) /\ Terminal(r)')
            => /\ http'[r].status \in 500..599
               /\ http'[r] # InternalServerError
               /\ data_[r] = NoRow
               /\ store' = store]_vars

\* C3: for a model text that is not valid JSON, report() hands its caller a kind of
\* value other than the kind it hands back for a text that parses.
C3_UnparsedIsExplicit ==
    \A r, q \in Req :
       ( /\ pc[r] = "Validated" /\ pc[q] = "Validated"
         /\ ~llmOut[r].raised /\ ~llmOut[q].raised
         /\ ~json_loads(llmOut[r].text).ok
         /\ json_loads(llmOut[q].text).ok )
          => response[r].type # response[q].type

\* C4: the rows of concurrent inserts have pairwise distinct ids, each id is
\* greater than every id committed before it, and the ids have no gaps.
C4_DistinctIncreasingIds ==
    /\ \A i, j \in DOMAIN store : i < j => store[i].id < store[j].id
    /\ {store[i].id : i \in DOMAIN store} = 1..Len(store)
    /\ \A r \in Req : pc[r] = "Flushed" => \A i \in DOMAIN store : store[i].id < data_[r].id

C4_Witness == Cardinality({r \in Req : Committed(r)}) >= 2

\* C5: every row of the store, and every row a GET / has read, has all its fields
\* set; a row enters the store in one step, with all its fields from the one
\* request that commits it, whose interpretation completed; no request creates
\* more than one row.
C5_NoPartialRows ==
    [][/\ \A row \in Rows' :
             \A f \in {"Temp", "Humid", "Proxy", "Resp", "Sugg", "Confid"} :
                row[f].t # "none"
       /\ gdata' # NoRow => gdata' \in Rows'
       /\ \A i \in DOMAIN gItems' : gItems'[i] \in Rows'
       /\ \A r \in Req :
             (pc[r] # "Persisted" /\ pc'[r] = "Persisted")
                => /\ store' = Append(store, data_[r])
                   /\ FromRequest(data_[r], r)
       /\ store' # store
             => Cardinality({r \in Req : pc[r] # "Persisted" /\ pc'[r] = "Persisted"}) = 1
       /\ Len(store') <= Cardinality({r \in Req : Committed(r)'})]_vars

C5_Witness == gpc = "Recent" /\ gdata # NoRow /\ Len(gItems) >= 2

\* C6: the latest query of GET / returns the row with the greatest id (nothing on
\* an empty store), the recent query at most 20 rows, strictly descending by id,
\* exactly those with the 20 greatest ids, and the latest row is the first row of
\* the recent list.
C6_DashboardQueries ==
    [][/\ (gpc = "Idle" /\ gpc' = "Latest")
            => IF store = <<>> THEN gdata' = NoRow
               ELSE gdata' \in Rows /\ \A row \in Rows : row.id <= gdata'.id
       /\ (gpc = "Latest" /\ gpc' = "Recent")
            => /\ Len(gItems') <= 20
               /\ \A i, j \in DOMAIN gItems' : i < j => gItems'[i].id > gItems'[j].id
               /\ \A i \in DOMAIN gItems' : gItems'[i] \in Rows
               /\ \A row \in Rows :
                     (\E i \in DOMAIN gItems' : gItems'[i] = row)
                        \/ (Len(gItems') = 20 /\ row.id < gItems'[20].id)
               /\ gdata' = IF gItems' = <<>> THEN NoRow ELSE gItems'[1]]_vars

\* C7: a request goes through Received, Formatted, Interpreted, Validated,
\* Persisted in that order, and leaves the pipeline early only from Validated.
C7_OnlyValidatedFails ==
    [][\A r \in Req :
         Stage(pc'[r]) # Stage(pc[r])
            => <<Stage(pc[r]), Stage(pc'[r])>> \in
                  { <<"Idle", "Received">>, <<"Received", "Formatted">>,
                    <<"Formatted", "Interpreted">>, <<"Interpreted", "Validated">>,
                    <<"Validated", "Persisted">>, <<"Validated", "Failed">> }]_vars

\* C7 (amended): a request goes through Received, Formatted, Interpreted,
\* Validated, Persisted in that order without skipping or repeating a state, and
\* leaves the pipeline early only from Received or from Validated.
C7_PipelineOrder ==
    [][\A r \in Req :
         Stage(pc'[r]) # Stage(pc[r])
            => <<Stage(pc[r]), Stage(pc'[r])>> \in
                  { <<"Idle", "Received">>, <<"Received", "Formatted">>,
                    <<"Formatted", "Interpreted">>, <<"Interpreted", "Validated">>,
                    <<"Validated", "Persisted">>, <<"Validated", "Failed">>,
                    <<"Received", "Failed">> }]_vars

C7_Witness ==
    /\ \E r \in Req : pc[r] = "Done"
    /\ \E r \in Req : pc[r] = "Failed" /\ exc[r] = "ValueError"

\* C8: on success the confidence of the row and the Confid of the 200 response
\* are integers, and the same integer.
C8_ConfidenceIsInteger ==
    \A r \in Req :
       pc[r] = "Done"
          => /\ http[r].Confid.t = "int"
             /\ \A row \in Rows :
                   row.id = http[r].id
                      => row.Confid.t = "int" /\ row.Confid = http[r].Confid

\* C9: no step updates or deletes a row: GET / leaves the store as it is, and a
\* POST /data adds at most one row, at its commit.
C9_AppendOnly ==
    [][/\ \A i \in DOMAIN store : i \in DOMAIN store' /\ store'[i] = store[i]
       /\ Len(store') <= Len(store) + 1
       /\ gpc' # gpc => store' = store
       /\ store' # store => \E r \in Req : pc[r] = "Flushed" /\ pc'[r] = "Persisted"]_vars

C9_Witness == Len(store) >= 2 /\ gpc = "Recent"

\* C10: a request that answers 200 has inserted exactly one row, the id it answers
\* is that row's id and the row holds its own inputs; distinct requests answer
\* distinct ids; a request that fails has inserted no row; the rows are as many as
\* the requests that committed.
C10_ResponsesMatchRows ==
    [][/\ \A r \in Req :
             (pc[r] = "Persisted" /\ pc'[r] = "Done")
                => /\ http'[r].status = 200
                   /\ Cardinality({i \in DOMAIN store' : store'[i].id = http'[r].id}) = 1
                   /\ \A row \in Rows' :
                         row.id = http'[r].id
                            => /\ row = data_[r]
                               /\ FromRequest(row, r)
                               /\ row.Resp = http'[r].Display
                               /\ row.Sugg = http'[r].Sugg
       /\ \A r, q \in Req :
             (r # q /\ pc'[r] = "Done" /\ pc'[q] = "Done") => http'[r].id # http'[q].id
       /\ \A r \in Req :
             (pc[r] # "Failed" /\ pc'[r] = "Failed")
                => http'[r].status # 200 /\ data_[r] = NoRow /\ store' = store
       /\ Len(store') = Cardinality({r \in Req : Committed(r)'})]_vars

C10_Witness ==
    \E r, q \in Req :
       /\ r # q /\ pc[r] = "Done" /\ pc[q] = "Done"
       /\ http[r].Display # http[q].Display
       /\ http[r].id > http[q].id

====
